---- MODULE Spec2Model ----
(***************************************************************************)
(* Banknote serial-number verification service.                            *)
(*                                                                         *)
(*   server/routes.ts   registerRoutes: the HTTP handlers                  *)
(*   server/storage.ts  DatabaseStorage: the store (src/unnamed/part_001)  *)
(*   shared/schema.ts   the tables and verifyBanknoteSchema                *)
(*                                                                         *)
(* A handler is an async function: it runs without interruption up to its  *)
(* next `await` of a store call, and other handlers run while it waits.    *)
(* Every action below is one such run: the completion of the awaited store *)
(* call (a single SQL statement, atomic in the store) followed by the      *)
(* handler's code up to the next await or to its response.                 *)
(***************************************************************************)
EXTENDS Integers, Sequences, FiniteSets, TLC

VARIABLES
    countries,      \* table countries: set of rows [id, code]
    denominations,  \* table denominations: set of rows
    logs,           \* table verification_logs, in insertion order (id = index)
    nextCountryId,  \* serial sequence of countries.id
    nextDenomId,    \* serial sequence of denominations.id
    seed,           \* per startup: the state of its seedInitialData call
    vreq,           \* per POST /api/verify request slot: the handler's state
    greq,           \* the GET request slot: the handler's state
    engine          \* the verification check applied to one input

vars == <<countries, denominations, logs, nextCountryId, nextDenomId,
          seed, vreq, greq, engine>>

None == "none"

(***************************************************************************)
(* Bounds of the model.                                                    *)
(***************************************************************************)
\* how many rows of countryData (from the top) seedInitialData inserts
NumSeedCountries == 2
\* how many denominationData rows it inserts, taken from the seeded countries
\* one per country in turn
MaxSeedDenoms == 2
\* the verification log is explored up to this many rows
MaxLog == 2
\* getVerificationStats is applied to logs of up to this many authentic and
\* this many suspicious rows
MaxStatsRows == 8

(***************************************************************************)
(* Strings.  A serial number is a sequence of characters; JavaScript      *)
(* strings are sequences of UTF-16 code units, and String.length and a    *)
(* RegExp without the u flag both count code units: a character outside   *)
(* the Basic Multilingual Plane is two units (a surrogate pair).           *)
(***************************************************************************)
UpperAL == {"A", "B", "C", "D", "E", "F", "G", "H", "I", "J", "K", "L"}
Upper == UpperAL \cup {"M", "N", "O", "P", "Q", "R", "S", "T", "U", "V", "W",
                       "X", "Y", "Z"}
Digit == {"0", "1", "2", "3", "4", "5", "6", "7", "8", "9"}
\* what \s matches (ECMAScript WhiteSpace and LineTerminator), in part
WhiteSpace == {" ", "\t", "\n", "\r", "\f", "U+00A0", "U+FEFF"}
\* characters outside the BMP
Astral == {"U+1F600"}

CodeUnitsOfChar(c) ==
    IF c \in Astral THEN <<"U+D83D", "U+DE00">> ELSE <<c>>

RECURSIVE CodeUnits(_)
CodeUnits(s) ==
    IF s = <<>> THEN <<>>
    ELSE CodeUnitsOfChar(Head(s)) \o CodeUnits(Tail(s))

\* the number of characters, which is not what String.prototype.length counts
JsLengthInChars(s) == Len(s)

\* String.prototype.length
JsLength(s) == Len(CodeUnits(s))

(***************************************************************************)
(* Regular expressions: new RegExp(serialFormat) and RegExp.test.         *)
(* Every seeded serialFormat is a sequence of character classes with a    *)
(* fixed repeat count between ^ and $.                                     *)
(***************************************************************************)
Atom(cls, n) == [cls |-> cls, n |-> n]

InClass(u, cls) ==
    CASE cls = "[A-L]" -> u \in UpperAL
      [] cls = "[A-Z]" -> u \in Upper
      [] cls = "\\d"   -> u \in Digit
      [] cls = "\\s"   -> u \in WhiteSpace

ParsePattern(src) ==
    CASE src = "^[A-L]\\d{8}[A-Z]$" ->
            [start |-> TRUE, end |-> TRUE,
             atoms |-> <<Atom("[A-L]", 1), Atom("\\d", 8), Atom("[A-Z]", 1)>>]
      [] src = "^[A-Z]{2}\\d{2}\\s\\d{6}$" ->
            [start |-> TRUE, end |-> TRUE,
             atoms |-> <<Atom("[A-Z]", 2), Atom("\\d", 2), Atom("\\s", 1),
                         Atom("\\d", 6)>>]
      [] src = "^[A-Z]\\d{11}$" ->
            [start |-> TRUE, end |-> TRUE,
             atoms |-> <<Atom("[A-Z]", 1), Atom("\\d", 11)>>]
      [] src = "^[A-Z]\\d{6}[A-Z]$" ->
            [start |-> TRUE, end |-> TRUE,
             atoms |-> <<Atom("[A-Z]", 1), Atom("\\d", 6), Atom("[A-Z]", 1)>>]
      [] src = "^[A-Z]{3}\\d{7}$" ->
            [start |-> TRUE, end |-> TRUE,
             atoms |-> <<Atom("[A-Z]", 3), Atom("\\d", 7)>>]
      [] src = "^[A-Z]{2}\\d{8}$" ->
            [start |-> TRUE, end |-> TRUE,
             atoms |-> <<Atom("[A-Z]", 2), Atom("\\d", 8)>>]
      [] src = "^\\d{2}[A-Z]\\d{7}$" ->
            [start |-> TRUE, end |-> TRUE,
             atoms |-> <<Atom("\\d", 2), Atom("[A-Z]", 1), Atom("\\d", 7)>>]
      [] src = "^[A-Z]{2}\\d{7}$" ->
            [start |-> TRUE, end |-> TRUE,
             atoms |-> <<Atom("[A-Z]", 2), Atom("\\d", 7)>>]
      [] src = "^[A-Z]\\d{6}$" ->
            [start |-> TRUE, end |-> TRUE,
             atoms |-> <<Atom("[A-Z]", 1), Atom("\\d", 6)>>]

\* a pattern compiled without its closing $
RegExpNoEndAnchor(src) == [ParsePattern(src) EXCEPT !.end = FALSE]

\* new RegExp(src)
RegExp(src) == ParsePattern(src)

\* the classes of a pattern, one per code unit it consumes
RECURSIVE Classes(_)
Classes(atoms) ==
    IF atoms = <<>> THEN <<>>
    ELSE [i \in 1..Head(atoms).n |-> Head(atoms).cls] \o Classes(Tail(atoms))

\* the pattern matches the code units from offset o (0-based) on
MatchesAt(re, units, o) ==
    LET cs == Classes(re.atoms) IN
    /\ o + Len(cs) <= Len(units)
    /\ \A i \in 1..Len(cs) : InClass(units[o + i], cs[i])
    /\ re.start => o = 0
    /\ re.end => o + Len(cs) = Len(units)

\* RegExp.prototype.test (no g or y flag: the search starts at 0 every time)
Test(re, s) ==
    LET units == CodeUnits(s) IN
    \E o \in 0..Len(units) : MatchesAt(re, units, o)

(***************************************************************************)
(* The verification check, routes.ts lines 54-60.                          *)
(***************************************************************************)
LengthValidAtLeast(serialNumber, serialLength) ==
    JsLength(serialNumber) >= serialLength

LengthValid(serialNumber, serialLength) ==
    JsLength(serialNumber) = serialLength

FormatValid(serialFormat, serialNumber) ==
    Test(RegExp(serialFormat), serialNumber)

IsAuthenticLengthOnly(formatValid, lengthValid) == lengthValid

IsAuthentic(formatValid, lengthValid) == formatValid /\ lengthValid

Verify(serialFormat, serialLength, serialNumber) ==
    LET formatValid == FormatValid(serialFormat, serialNumber)
        lengthValid == LengthValid(serialNumber, serialLength)
    IN  [formatValid |-> formatValid,
         lengthValid |-> lengthValid,
         isAuthentic |-> IsAuthentic(formatValid, lengthValid)]

(***************************************************************************)
(* The seed tables of seedInitialData.  Of a country only its code is      *)
(* modelled; of a denomination its country (the index into                 *)
(* createdCountries), value, serialFormat and serialLength.                *)
(***************************************************************************)
countryData ==
    <<"US", "UK", "EU", "JP", "CA", "AU", "CH", "CN", "IN", "KR", "SG", "HK",
      "NO", "SE", "DK", "NZ", "RU", "BR", "MX", "SA", "LK", "MY", "TH", "ID",
      "PH">>

DenomRows(country, values, serialFormat, serialLength) ==
    [i \in 1..Len(values) |->
        [country |-> country, value |-> values[i],
         serialFormat |-> serialFormat, serialLength |-> serialLength]]

denominationData ==
    DenomRows(0, <<"1", "2", "5", "10", "20", "50", "100">>,
              "^[A-L]\\d{8}[A-Z]$", 10)
    \o DenomRows(1, <<"5", "10", "20", "50">>, "^[A-Z]{2}\\d{2}\\s\\d{6}$", 11)
    \o DenomRows(2, <<"5", "10", "20", "50", "100", "200", "500">>,
                 "^[A-Z]\\d{11}$", 12)
    \o DenomRows(3, <<"1000", "2000", "5000", "10000">>, "^[A-Z]\\d{6}[A-Z]$", 8)
    \o DenomRows(4, <<"5", "10", "20", "50", "100">>, "^[A-Z]{3}\\d{7}$", 10)
    \o DenomRows(5, <<"5", "10", "20", "50", "100">>, "^[A-Z]{2}\\d{8}$", 10)
    \o DenomRows(6, <<"10", "20", "50", "100", "200", "1000">>,
                 "^\\d{2}[A-Z]\\d{7}$", 10)
    \o DenomRows(19, <<"10", "20", "50", "100", "200">>, "^[A-Z]{2}\\d{7}$", 9)
    \o DenomRows(20, <<"20", "50", "100", "500", "1000", "5000">>,
                 "^[A-Z]\\d{6}$", 7)

(***************************************************************************)
(* Inputs of the verification check: for a denomination, a serial that     *)
(* fits its pattern, and that serial with one character removed, inserted  *)
(* or replaced; and the serials that fit the other patterns.               *)
(***************************************************************************)
ProbeChars == {"B", "M", "7", " ", "\t", "a", "-", "U+1F600"}

ClassSample(cls) ==
    CASE cls = "[A-L]" -> "B"
      [] cls = "[A-Z]" -> "C"
      [] cls = "\\d"   -> "1"
      [] cls = "\\s"   -> " "

SampleSerial(serialFormat) ==
    LET cs == Classes(RegExp(serialFormat).atoms) IN
    [i \in 1..Len(cs) |-> ClassSample(cs[i])]

Removed(s, i) == SubSeq(s, 1, i - 1) \o SubSeq(s, i + 1, Len(s))
Inserted(s, i, c) == SubSeq(s, 1, i) \o <<c>> \o SubSeq(s, i + 1, Len(s))
Replaced(s, i, c) == [s EXCEPT ![i] = c]

SerialsNear(s) ==
    {s}
    \cup {Removed(s, i) : i \in 1..Len(s)}
    \cup {Inserted(s, i, c) : i \in 0..Len(s), c \in ProbeChars}
    \cup {Replaced(s, i, c) : i \in 1..Len(s), c \in ProbeChars}

EngineSerials(d) ==
    SerialsNear(SampleSerial(d.serialFormat))
    \cup {SampleSerial(denominationData[k].serialFormat) :
            k \in 1..Len(denominationData)}
    \cup {<<>>}

NoResult == [formatValid |-> FALSE, lengthValid |-> FALSE, isAuthentic |-> FALSE]

EngineInit ==
    \E k \in 1..Len(denominationData) :
        \E s \in EngineSerials(denominationData[k]) :
            engine = [pc |-> "input",
                      denomination |-> denominationData[k],
                      serialNumber |-> s,
                      result |-> NoResult]

EngineIdle ==
    [pc |-> "off", denomination |-> denominationData[1], serialNumber |-> <<>>,
     result |-> NoResult]

\* the check applied to the input
EngineVerify ==
    /\ engine.pc = "input"
    /\ engine' = [engine EXCEPT
                    !.pc = "checked",
                    !.result = Verify(engine.denomination.serialFormat,
                                      engine.denomination.serialLength,
                                      engine.serialNumber)]
    /\ UNCHANGED <<countries, denominations, logs, nextCountryId, nextDenomId,
                   seed, vreq, greq>>

(***************************************************************************)
(* The store, storage.ts (DatabaseStorage).                                *)
(***************************************************************************)
\* the rows seedInitialData inserts within the bounds
SeedCountryData == SubSeq(countryData, 1, NumSeedCountries)

\* how many rows of denominationData before row k belong to the same country
RankInCountry(k) ==
    Cardinality({j \in 1..(k - 1) :
                    denominationData[j].country = denominationData[k].country})

\* the rows of the seeded countries that come before row k when the rows are
\* taken one per country in turn: every country's first row, then every
\* country's second row, and so on
RowsBefore(k) ==
    {j \in 1..Len(denominationData) :
        /\ denominationData[j].country < NumSeedCountries
        /\ \/ RankInCountry(j) < RankInCountry(k)
           \/ /\ RankInCountry(j) = RankInCountry(k)
              /\ denominationData[j].country < denominationData[k].country}

SeedDenominationData ==
    SelectSeq([k \in 1..Len(denominationData) |->
                  [row |-> denominationData[k], rank |-> RankInCountry(k),
                   before |-> Cardinality(RowsBefore(k))]],
              LAMBDA e : /\ e.row.country < NumSeedCountries
                         /\ e.before < MaxSeedDenoms)

SeedCountryIdx == 1..Len(SeedCountryData)
SeedDenomIdx == 1..Len(SeedDenominationData)

CountryRow(id, code) == [id |-> id, code |-> code]

DenominationRow(id, countryId, d) ==
    [id |-> id, countryId |-> countryId, value |-> d.value,
     serialFormat |-> d.serialFormat, serialLength |-> d.serialLength]

\* the select without its where clause
GetCountryByCodeNoWhere(code) == countries

\* getCountryByCode: the rows the select returns; the caller takes the first
GetCountryByCode(code) == {c \in countries : c.code = code}

\* the select without the countryId condition
GetDenominationByValueOnly(countryId, value) ==
    {d \in denominations : d.value = value}

\* getDenomination: the rows the select returns; the caller takes the first
GetDenomination(countryId, value) ==
    {d \in denominations : d.countryId = countryId /\ d.value = value}

\* getDenominationsByCountry
GetDenominationsByCountry(countryId) ==
    {d \in denominations : d.countryId = countryId}

\* countries.code is declared unique: the insert is rejected when the code
\* is already in the table
UniqueCodeNotEnforced(code) == FALSE

UniqueViolation(code) == \E c \in countries : c.code = code

\* an insert that replaces the table by the new row
InsertLogReplacing(table, insertLog) ==
    <<[id |-> Len(table) + 1] @@ insertLog>>

\* createVerificationLog: the table after the insert; the new row is the last
InsertLog(table, insertLog) ==
    Append(table, [id |-> Len(table) + 1] @@ insertLog)

(***************************************************************************)
(* seedInitialData, called by registerRoutes before the routes exist.      *)
(* Promise.all starts every insert of a table at once: the store applies   *)
(* them in any order.  Promise.all rejects with the first insert that      *)
(* fails, which ends seedInitialData, while the inserts already started    *)
(* still reach the store.                                                  *)
(***************************************************************************)
Startups == {"s1", "s2"}

\* created[i]: 0 while the insert of countryData row i is pending, the id it
\* returned, -1 when the store rejected it for its code (code is unique),
\* -2 when the store call failed otherwise
SeedIdle ==
    [pc |-> "idle", passed |-> FALSE,
     created |-> [i \in SeedCountryIdx |-> 0], pending |-> {}]

StartUp(s) ==
    /\ seed[s].pc = "idle"
    /\ seed' = [seed EXCEPT ![s].pc = "getCountries"]
    /\ UNCHANGED <<countries, denominations, logs, nextCountryId, nextDenomId,
                   vreq, greq, engine>>

\* the emptiness check left out
DataAlreadySeededNever(existingCountries) == FALSE

\* existingCountries.length > 0
DataAlreadySeeded(existingCountries) == Cardinality(existingCountries) > 0

\* lines 132-135: the read of the countries, and the check
SeedGetCountries(s) ==
    /\ seed[s].pc = "getCountries"
    /\ seed' = [seed EXCEPT
                  ![s].pc = IF DataAlreadySeeded(countries) THEN "done"
                            ELSE "createCountry",
                  ![s].passed = ~DataAlreadySeeded(countries)]
    /\ UNCHANGED <<countries, denominations, logs, nextCountryId, nextDenomId,
                   vreq, greq, engine>>

\* the state of the call after a country insert settled
AfterCountryInsert(st, i, id) ==
    LET created == [st.created EXCEPT ![i] = id] IN
    [st EXCEPT
       !.created = created,
       !.pc = IF st.pc # "createCountry" THEN st.pc
              ELSE IF id < 0 THEN "failed"
              ELSE IF \A j \in SeedCountryIdx : created[j] > 0
                   THEN "createDenomination"
              ELSE "createCountry",
       !.pending = IF /\ st.pc = "createCountry"
                      /\ \A j \in SeedCountryIdx : created[j] > 0
                   THEN SeedDenomIdx ELSE st.pending]

\* lines 166-168: one createCountry of the Promise.all reaches the store
SeedCreateCountry(s, i) ==
    /\ seed[s].passed
    /\ seed[s].pc \in {"createCountry", "failed"}
    /\ seed[s].created[i] = 0
    /\ IF UniqueViolation(SeedCountryData[i])
       THEN /\ seed' = [seed EXCEPT ![s] = AfterCountryInsert(seed[s], i, -1)]
            /\ UNCHANGED <<countries, nextCountryId>>
       ELSE /\ countries' = countries \cup
                    {CountryRow(nextCountryId, SeedCountryData[i])}
            /\ nextCountryId' = nextCountryId + 1
            /\ seed' = [seed EXCEPT
                          ![s] = AfterCountryInsert(seed[s], i, nextCountryId)]
    /\ UNCHANGED <<denominations, logs, nextDenomId, vreq, greq, engine>>

\* the state of the call after a denomination insert settled
AfterDenominationInsert(st, k, ok) ==
    [st EXCEPT
       !.pending = st.pending \ {k},
       !.pc = IF st.pc # "createDenomination" THEN st.pc
              ELSE IF ~ok THEN "failed"
              ELSE IF st.pending = {k} THEN "done"
              ELSE "createDenomination"]

\* lines 240-242: one createDenomination of the Promise.all reaches the store
SeedCreateDenomination(s, k) ==
    /\ seed[s].pc \in {"createDenomination", "failed"}
    /\ k \in seed[s].pending
    /\ denominations' = denominations \cup
            {DenominationRow(nextDenomId,
                             seed[s].created[SeedDenominationData[k].row.country + 1],
                             SeedDenominationData[k].row)}
    /\ nextDenomId' = nextDenomId + 1
    /\ seed' = [seed EXCEPT ![s] = AfterDenominationInsert(seed[s], k, TRUE)]
    /\ UNCHANGED <<countries, logs, nextCountryId, vreq, greq, engine>>

\* a store call of seedInitialData fails (the store is unreachable, ...)
SeedGetCountriesError(s) ==
    /\ seed[s].pc = "getCountries"
    /\ seed' = [seed EXCEPT ![s].pc = "failed"]
    /\ UNCHANGED <<countries, denominations, logs, nextCountryId, nextDenomId,
                   vreq, greq, engine>>

SeedCreateCountryError(s, i) ==
    /\ seed[s].passed
    /\ seed[s].pc \in {"createCountry", "failed"}
    /\ seed[s].created[i] = 0
    /\ seed' = [seed EXCEPT ![s] = AfterCountryInsert(seed[s], i, -2)]
    /\ UNCHANGED <<countries, denominations, logs, nextCountryId, nextDenomId,
                   vreq, greq, engine>>

SeedCreateDenominationError(s, k) ==
    /\ seed[s].pc \in {"createDenomination", "failed"}
    /\ k \in seed[s].pending
    /\ seed' = [seed EXCEPT ![s] = AfterDenominationInsert(seed[s], k, FALSE)]
    /\ UNCHANGED <<countries, denominations, logs, nextCountryId, nextDenomId,
                   vreq, greq, engine>>

\* the routes exist once seedInitialData has returned (routes.ts line 9)
RoutesRegistered == \E s \in Startups : seed[s].pc = "done"

(***************************************************************************)
(* POST /api/verify, routes.ts lines 39-89.                                *)
(***************************************************************************)
VerifyReqs == {"v1", "v2"}

CountryCodeMin == 2
CountryCodeMax == 3
DenominationMin == 1
SerialNumberMin == 1
SerialNumberMax == 20

\* a schema whose serialNumber has no upper limit
VerifyBanknoteSchemaNoMax(body) ==
    /\ Len(body.countryCode) >= CountryCodeMin
    /\ Len(body.countryCode) <= CountryCodeMax
    /\ Len(body.denomination) >= DenominationMin
    /\ JsLength(body.serialNumber) >= SerialNumberMin

\* verifyBanknoteSchema.parse(body) does not throw
VerifyBanknoteSchema(body) ==
    /\ Len(body.countryCode) >= CountryCodeMin
    /\ Len(body.countryCode) <= CountryCodeMax
    /\ Len(body.denomination) >= DenominationMin
    /\ JsLength(body.serialNumber) >= SerialNumberMin
    /\ JsLength(body.serialNumber) <= SerialNumberMax

\* the request bodies of the model: JSON objects with three string fields
SerialUS == <<"B", "1", "2", "3", "4", "5", "6", "7", "8", "C">>
SerialTen == <<"A", "B", "1", "2", "3", "4", "5", "6", "7", "8">>
SerialUK == <<"A", "B", "1", "2", " ", "3", "4", "5", "6", "7", "8">>
SerialLong == [i \in 1..(SerialNumberMax + 1) |-> "1"]

Body(countryCode, denomination, serialNumber) ==
    [countryCode |-> countryCode, denomination |-> denomination,
     serialNumber |-> serialNumber]

Bodies ==
    { Body("US", "1", SerialUS), Body("US", "1", SerialTen),
      Body("UK", "5", SerialTen), Body("UK", "5", SerialUK),
      Body("ZZ", "1", SerialUS),
      Body("US", "5", SerialUS),
      Body("U", "1", SerialUS), Body("USAX", "1", SerialUS),
      Body("US", "", SerialUS), Body("US", "1", <<>>),
      Body("US", "1", SerialLong) }

NoBody == Body("", "", <<>>)
NoCountry == CountryRow(0, "")
NoDenomination ==
    [id |-> 0, countryId |-> 0, value |-> "", serialFormat |-> "",
     serialLength |-> 0]

\* a response: the status and, of a 200, the fields of the JSON sent
Response(status, serialNumber, result) ==
    [status |-> status, serialNumber |-> serialNumber,
     formatValid |-> result.formatValid, lengthValid |-> result.lengthValid,
     isAuthentic |-> result.isAuthentic]

\* country, denominationData, check: the handler's locals
\* calls: the store calls the handler has made; failed: the one that threw
\* logId: the id of the row createVerificationLog returned, 0 when none
VerifyIdle ==
    [pc |-> "idle", body |-> NoBody, country |-> NoCountry,
     denominationData |-> NoDenomination, check |-> NoResult,
     calls |-> <<>>, failed |-> None, logId |-> 0, responses |-> <<>>]

\* res.status(status).json(...) and the handler's return
Respond(req, response) ==
    [req EXCEPT !.pc = "done", !.country = NoCountry,
                !.denominationData = NoDenomination, !.check = NoResult,
                !.responses = Append(@, response)]

\* a catch block that answers every error with 404
CatchAsNotFound(req, error) ==
    Respond(req, Response(404, <<>>, NoResult))

\* the catch block, lines 83-88
Catch(req, error) ==
    IF error = "ZodError"
    THEN Respond(req, Response(400, <<>>, NoResult))
    ELSE Respond(req, Response(500, <<>>, NoResult))

\* the row handed to createVerificationLog, lines 63-70
InsertLogRow(req) ==
    [countryId |-> req.country.id,
     denominationId |-> req.denominationData.id,
     serialNumber |-> req.body.serialNumber,
     isAuthentic |-> req.check.isAuthentic,
     formatValid |-> req.check.formatValid,
     lengthValid |-> req.check.lengthValid]

\* lines 39-43: the request arrives, the body is parsed, getCountryByCode
\* is called
VerifyReceive(r, body) ==
    /\ RoutesRegistered
    /\ vreq[r].pc \in {"idle", "done"}
    /\ vreq' = [vreq EXCEPT ![r] =
          IF VerifyBanknoteSchema(body)
          THEN [VerifyIdle EXCEPT !.pc = "getCountryByCode", !.body = body,
                                  !.calls = <<"getCountryByCode">>]
          ELSE Catch([VerifyIdle EXCEPT !.body = body], "ZodError")]
    /\ UNCHANGED <<countries, denominations, logs, nextCountryId, nextDenomId,
                   seed, greq, engine>>

\* lines 43-48: getCountryByCode returns; getDenomination is called
VerifyCountry(r) ==
    /\ vreq[r].pc = "getCountryByCode"
    /\ LET found == GetCountryByCode(vreq[r].body.countryCode) IN
       IF found = {}
       THEN vreq' = [vreq EXCEPT ![r] =
                        Respond(vreq[r], Response(404, <<>>, NoResult))]
       ELSE \E country \in found :
              vreq' = [vreq EXCEPT ![r].pc = "getDenomination",
                                   ![r].country = country,
                                   ![r].calls = Append(@, "getDenomination")]
    /\ UNCHANGED <<countries, denominations, logs, nextCountryId, nextDenomId,
                   seed, greq, engine>>

\* lines 48-63: getDenomination returns; the check; createVerificationLog is
\* called
VerifyDenomination(r) ==
    /\ vreq[r].pc = "getDenomination"
    /\ LET found == GetDenomination(vreq[r].country.id,
                                    vreq[r].body.denomination) IN
       IF found = {}
       THEN vreq' = [vreq EXCEPT ![r] =
                        Respond(vreq[r], Response(404, <<>>, NoResult))]
       ELSE \E denom \in found :
              vreq' = [vreq EXCEPT
                 ![r].pc = "createVerificationLog",
                 ![r].denominationData = denom,
                 ![r].check = Verify(denom.serialFormat,
                                     denom.serialLength,
                                     vreq[r].body.serialNumber),
                 ![r].calls = Append(@, "createVerificationLog")]
    /\ UNCHANGED <<countries, denominations, logs, nextCountryId, nextDenomId,
                   seed, greq, engine>>

\* lines 63-82: createVerificationLog returns; the 200 response
VerifyLog(r) ==
    /\ vreq[r].pc = "createVerificationLog"
    /\ Len(logs) < MaxLog
    /\ logs' = InsertLog(logs, InsertLogRow(vreq[r]))
    /\ vreq' = [vreq EXCEPT ![r] =
          Respond([vreq[r] EXCEPT !.logId = logs'[Len(logs')].id],
                  Response(200, vreq[r].body.serialNumber, vreq[r].check))]
    /\ UNCHANGED <<countries, denominations, nextCountryId, nextDenomId,
                   seed, greq, engine>>

\* the awaited store call throws: the catch block
VerifyStoreError(r) ==
    /\ vreq[r].pc \in {"getCountryByCode", "getDenomination",
                       "createVerificationLog"}
    /\ vreq' = [vreq EXCEPT ![r] =
          Catch([vreq[r] EXCEPT !.failed = vreq[r].pc], "Error")]
    /\ UNCHANGED <<countries, denominations, logs, nextCountryId, nextDenomId,
                   seed, greq, engine>>

(***************************************************************************)
(* GET /api/countries, GET /api/countries/:countryCode/denominations and   *)
(* GET /api/stats, routes.ts lines 12-36 and 92-99.                        *)
(***************************************************************************)
\* Math.round(num / den) of a value that is not negative
MathRound(num, den) == (2 * num + den) \div (2 * den)

NoStats ==
    [totalVerified |-> 0, authentic |-> 0, suspicious |-> 0, successRate |-> 0]

\* the statistics with every row counted as authentic
GetVerificationStatsAllAuthentic(rows) ==
    [totalVerified |-> Len(rows), authentic |-> Len(rows), suspicious |-> 0,
     successRate |-> IF Len(rows) > 0 THEN 1000 ELSE 0]

\* getVerificationStats, lines 117-127, of the rows the select returned.
\* successRate is in tenths: the value returned is successRate / 10
GetVerificationStats(rows) ==
    LET totalVerified == Len(rows)
        authentic == Len(SelectSeq(rows, LAMBDA log : log.isAuthentic))
        suspicious == totalVerified - authentic
    IN  [totalVerified |-> totalVerified,
         authentic |-> authentic,
         suspicious |-> suspicious,
         successRate |-> IF totalVerified > 0
                         THEN MathRound(authentic * 100 * 10, totalVerified)
                         ELSE 0]

\* a select of the log that misses the newest row
SelectLogsStale(table) ==
    IF table = <<>> THEN table ELSE SubSeq(table, 1, Len(table) - 1)

\* db.select().from(verificationLogs)
SelectLogs(table) == table

\* route: the handler; param: :countryCode; country: the handler's local
\* startLen: the number of log rows when the request arrived
\* read: the rows getVerificationStats was given by its select
GetIdle ==
    [pc |-> "idle", route |-> None, param |-> "", country |-> NoCountry,
     startLen |-> 0, read |-> <<>>, responses |-> <<>>]

GetResponse(status, items, stats) ==
    [status |-> status, items |-> items, stats |-> stats]

GetRespond(req, response) ==
    [req EXCEPT !.pc = "done", !.country = NoCountry,
                !.responses = Append(@, response)]

CountryCodes == {"US", "UK", "ZZ"}

GetUnchanged ==
    UNCHANGED <<countries, denominations, logs, nextCountryId, nextDenomId,
                seed, vreq, engine>>

\* line 14: GET /api/countries arrives; getCountries is called
CountriesReceive ==
    /\ RoutesRegistered
    /\ greq.pc \in {"idle", "done"}
    /\ greq' = [GetIdle EXCEPT !.pc = "getCountries", !.route = "countries"]
    /\ GetUnchanged

\* line 15
CountriesRespond ==
    /\ greq.pc = "getCountries"
    /\ greq' = GetRespond(greq,
                  GetResponse(200, {c.code : c \in countries}, NoStats))
    /\ GetUnchanged

\* lines 24-25: GET /api/countries/:countryCode/denominations arrives
DenominationsReceive(countryCode) ==
    /\ RoutesRegistered
    /\ greq.pc \in {"idle", "done"}
    /\ greq' = [GetIdle EXCEPT !.pc = "getCountryByCode",
                               !.route = "denominations",
                               !.param = countryCode]
    /\ GetUnchanged

\* lines 25-31
DenominationsCountry ==
    /\ greq.pc = "getCountryByCode"
    /\ LET found == GetCountryByCode(greq.param) IN
       IF found = {}
       THEN greq' = GetRespond(greq, GetResponse(404, {}, NoStats))
       ELSE \E country \in found :
              greq' = [greq EXCEPT !.pc = "getDenominationsByCountry",
                                   !.country = country]
    /\ GetUnchanged

\* lines 31-32
DenominationsRespond ==
    /\ greq.pc = "getDenominationsByCountry"
    /\ greq' = GetRespond(greq,
                  GetResponse(200,
                     {d.value : d \in GetDenominationsByCountry(greq.country.id)},
                     NoStats))
    /\ GetUnchanged

\* line 94: GET /api/stats arrives; getVerificationStats starts its select
StatsReceive ==
    /\ RoutesRegistered
    /\ greq.pc \in {"idle", "done"}
    /\ greq' = [GetIdle EXCEPT !.pc = "getVerificationStats",
                               !.route = "stats",
                               !.startLen = Len(logs)]
    /\ GetUnchanged

\* lines 116-127 and 95: the select returns, the statistics are sent
StatsRespond ==
    /\ greq.pc = "getVerificationStats"
    /\ LET rows == SelectLogs(logs) IN
       greq' = GetRespond([greq EXCEPT !.read = rows],
                  GetResponse(200, {}, GetVerificationStats(rows)))
    /\ GetUnchanged

\* the awaited store call throws: lines 16-18, 33-35, 96-98
GetStoreError ==
    /\ greq.pc \in {"getCountries", "getCountryByCode",
                    "getDenominationsByCountry", "getVerificationStats"}
    /\ greq' = GetRespond(greq, GetResponse(500, {}, NoStats))
    /\ GetUnchanged

(***************************************************************************)
(* Initial states.                                                         *)
(***************************************************************************)
\* an empty database, before any instance of the service has started
InitEmpty ==
    /\ countries = {}
    /\ denominations = {}
    /\ logs = <<>>
    /\ nextCountryId = 1
    /\ nextDenomId = 1
    /\ seed = [s \in Startups |-> SeedIdle]
    /\ vreq = [r \in VerifyReqs |-> VerifyIdle]
    /\ greq = GetIdle
    /\ engine = EngineIdle

\* the database as one seedInitialData leaves it when its inserts reach the
\* store in the order of the arrays; the instance is about to start again
SeededInOrder ==
    /\ countries = {CountryRow(i, SeedCountryData[i]) : i \in SeedCountryIdx}
    /\ denominations =
          {DenominationRow(k, SeedDenominationData[k].row.country + 1,
                           SeedDenominationData[k].row) : k \in SeedDenomIdx}
    /\ nextCountryId = Len(SeedCountryData) + 1
    /\ nextDenomId = Len(SeedDenominationData) + 1

InitSeeded ==
    /\ SeededInOrder
    /\ logs = <<>>
    /\ seed = [s \in Startups |-> SeedIdle]
    /\ vreq = [r \in VerifyReqs |-> VerifyIdle]
    /\ greq = GetIdle
    /\ engine = EngineIdle

(***************************************************************************)
(* Specifications.                                                         *)
(***************************************************************************)
\* one instance starts on the seeded database and serves two concurrent
\* POST /api/verify requests at a time
StartOnSeeded ==
    \/ StartUp("s1")
    \/ SeedGetCountries("s1")
    \/ SeedGetCountriesError("s1")

VerifyStep(r, bodies) ==
    \/ \E body \in bodies : VerifyReceive(r, body)
    \/ VerifyCountry(r)
    \/ VerifyDenomination(r)
    \/ VerifyLog(r)
    \/ VerifyStoreError(r)

Next ==
    \/ StartOnSeeded
    \/ \E r \in VerifyReqs : VerifyStep(r, Bodies)

Spec == InitSeeded /\ [][Next]_vars

\* one instance starts on the seeded database and serves every route: two
\* POST /api/verify requests and one GET request at a time
ServiceBodies ==
    { Body("US", "1", SerialUS), Body("US", "1", SerialTen),
      Body("ZZ", "1", SerialUS), Body("US", "1", SerialLong) }

GetStep ==
    \/ CountriesReceive
    \/ CountriesRespond
    \/ \E countryCode \in CountryCodes : DenominationsReceive(countryCode)
    \/ DenominationsCountry
    \/ DenominationsRespond
    \/ StatsReceive
    \/ StatsRespond
    \/ GetStoreError

NextService ==
    \/ StartOnSeeded
    \/ \E r \in VerifyReqs : VerifyStep(r, ServiceBodies)
    \/ GetStep

SpecService == InitSeeded /\ [][NextService]_vars

\* instances start concurrently on an empty database
NextSeed ==
    \E s \in Startups :
        \/ StartUp(s)
        \/ SeedGetCountries(s)
        \/ SeedGetCountriesError(s)
        \/ \E i \in SeedCountryIdx : SeedCreateCountry(s, i)
        \/ \E i \in SeedCountryIdx : SeedCreateCountryError(s, i)
        \/ \E k \in SeedDenomIdx : SeedCreateDenomination(s, k)
        \/ \E k \in SeedDenomIdx : SeedCreateDenominationError(s, k)

SpecSeed == InitEmpty /\ [][NextSeed]_vars

\* the verification check on every denomination of the seed table
InitEngine ==
    /\ SeededInOrder
    /\ logs = <<>>
    /\ seed = [s \in Startups |-> SeedIdle]
    /\ vreq = [r \in VerifyReqs |-> VerifyIdle]
    /\ greq = GetIdle
    /\ EngineInit

NextEngine == EngineVerify

SpecEngine == InitEngine /\ [][NextEngine]_vars

\* getVerificationStats on logs of n authentic and m suspicious rows: the
\* rows two requests for the first seeded denomination leave, one with a
\* serial that fits its pattern and one with a serial that does not
StatsLogRow(serialNumber) ==
    LET d == SeedDenominationData[1].row
        check == Verify(d.serialFormat, d.serialLength, serialNumber)
    IN  [countryId |-> d.country + 1, denominationId |-> 1,
         serialNumber |-> serialNumber, isAuthentic |-> check.isAuthentic,
         formatValid |-> check.formatValid, lengthValid |-> check.lengthValid]

RECURSIVE StatsLog(_, _)
StatsLog(n, m) ==
    IF m > 0 THEN InsertLog(StatsLog(n, m - 1), StatsLogRow(SerialTen))
    ELSE IF n > 0 THEN InsertLog(StatsLog(n - 1, 0), StatsLogRow(SerialUS))
    ELSE <<>>

InitStats ==
    /\ SeededInOrder
    /\ \E n \in 0..MaxStatsRows, m \in 0..MaxStatsRows : logs = StatsLog(n, m)
    /\ seed = [s \in Startups |->
                  IF s = "s1" THEN [SeedIdle EXCEPT !.pc = "done"] ELSE SeedIdle]
    /\ vreq = [r \in VerifyReqs |-> VerifyIdle]
    /\ greq = GetIdle
    /\ engine = EngineIdle

NextStats ==
    \/ StatsReceive
    \/ StatsRespond

SpecStats == InitStats /\ [][NextStats]_vars

(***************************************************************************)
(* Properties.                                                             *)
(***************************************************************************)
\* the requests that have been answered
Answered == {r \in VerifyReqs : vreq[r].pc = "done"}

\* the statuses of the responses a request was sent
Statuses(req) == [k \in 1..Len(req.responses) |-> req.responses[k].status]

LogIndexes == 1..Len(logs)

\* C1: every row of the verification log and every 200 response of
\* POST /api/verify has isAuthentic equal to (formatValid and lengthValid).
C1_IsAuthenticIsBothFlags ==
    /\ \A i \in LogIndexes :
          logs[i].isAuthentic <=> (logs[i].formatValid /\ logs[i].lengthValid)
    /\ \A r \in VerifyReqs : \A k \in 1..Len(vreq[r].responses) :
          vreq[r].responses[k].status = 200 =>
             (vreq[r].responses[k].isAuthentic <=>
                 (vreq[r].responses[k].formatValid
                  /\ vreq[r].responses[k].lengthValid))

\* C1: the log holds an authentic row and a row whose length is valid and
\* whose format is not, and a request was answered 200 for the latter
C1_Witness ==
    /\ \E i \in LogIndexes : logs[i].isAuthentic
    /\ \E i \in LogIndexes :
          logs[i].lengthValid /\ ~logs[i].formatValid /\ ~logs[i].isAuthentic
    /\ \E r \in Answered :
          /\ Statuses(vreq[r]) = <<200>>
          /\ vreq[r].responses[1].lengthValid
          /\ ~vreq[r].responses[1].isAuthentic

\* the body names a country of the store, and a denomination of that country
CountryKnown(body) == \E c \in countries : c.code = body.countryCode

DenominationKnown(body) ==
    \E c \in countries : \E d \in denominations :
        /\ c.code = body.countryCode
        /\ d.countryId = c.id
        /\ d.value = body.denomination

\* the step answers request r
Answers(r) == vreq[r].pc # "done" /\ vreq'[r].pc = "done"

\* C2: a POST /api/verify with a well-formed body whose countryCode matches
\* no Country, or whose denomination matches no Denomination of the Country
\* found, and whose lookups did not fail, is answered 404 and 404 only,
\* made no createVerificationLog call and got no log row; the step that
\* answers 404 leaves the log as it was, whatever the other requests do.
C2_NotFoundWritesNoLog ==
    /\ [](\A r \in Answered :
            (/\ VerifyBanknoteSchema(vreq[r].body)
             /\ vreq[r].failed = None
             /\ ~DenominationKnown(vreq[r].body))
            => /\ Statuses(vreq[r]) = <<404>>
               /\ vreq[r].logId = 0
               /\ \A k \in 1..Len(vreq[r].calls) :
                     vreq[r].calls[k] # "createVerificationLog")
    /\ [][\A r \in VerifyReqs :
            (Answers(r) /\ vreq'[r].responses[1].status = 404)
            => logs' = logs]_vars

\* C2: one request was answered 404 for an unknown country and another for
\* a denomination its country does not have, while the log holds a row
C2_Witness ==
    /\ Len(logs) > 0
    /\ \E r \in Answered :
          /\ ~CountryKnown(vreq[r].body)
          /\ VerifyBanknoteSchema(vreq[r].body)
          /\ Statuses(vreq[r]) = <<404>>
    /\ \E r \in Answered :
          /\ CountryKnown(vreq[r].body)
          /\ ~DenominationKnown(vreq[r].body)
          /\ Statuses(vreq[r]) = <<404>>

\* the input rules of POST /api/verify, as the specification words them
BodyViolatesRules(body) ==
    \/ Len(body.countryCode) < 2
    \/ Len(body.countryCode) > 3
    \/ body.denomination = ""
    \/ JsLength(body.serialNumber) < 1
    \/ JsLength(body.serialNumber) > 20

Store == <<countries, denominations, logs, nextCountryId, nextDenomId>>

\* C3: a POST /api/verify whose body violates the input rules is answered
\* 400 and 400 only, having made no store call; the step that answers it
\* leaves the store as it was.
C3_InvalidBodyIs400BeforeLookup ==
    /\ [](\A r \in Answered :
            BodyViolatesRules(vreq[r].body)
            => /\ Statuses(vreq[r]) = <<400>>
               /\ vreq[r].calls = <<>>
               /\ vreq[r].logId = 0)
    /\ [][\A r \in VerifyReqs :
            (Answers(r) /\ BodyViolatesRules(vreq'[r].body))
            => /\ vreq[r].pc = "idle" \/ vreq[r].pc = "done"
               /\ Store' = Store]_vars

\* C3: a request whose serialNumber is longer than 20 was answered 400
C3_Witness ==
    \E r \in Answered :
        /\ JsLength(vreq[r].body.serialNumber) > 20
        /\ Len(vreq[r].body.countryCode) = 2
        /\ Statuses(vreq[r]) = <<400>>
        /\ vreq[r].calls = <<>>

\* C6: every row of the verification log references a Country of the store
\* and a Denomination of the store that belongs to that Country.
C6_LogReferencesExist ==
    \A i \in LogIndexes :
        /\ \E c \in countries : c.id = logs[i].countryId
        /\ \E d \in denominations :
              /\ d.id = logs[i].denominationId
              /\ d.countryId = logs[i].countryId

\* C6: the log holds rows of two different countries
C6_Witness ==
    \E i \in LogIndexes, j \in LogIndexes :
        /\ logs[i].countryId # logs[j].countryId
        /\ logs[i].denominationId # logs[j].denominationId

\* C7: a request whose store call failed is answered 500 and 500 only,
\* whichever call it was; no request gets a second response; and a 200 is
\* sent only by a request no call of which failed and whose row is in the
\* log.
C7_StoreFailureIs500 ==
    /\ \A r \in VerifyReqs : Len(vreq[r].responses) <= 1
    /\ \A r \in VerifyReqs :
          vreq[r].pc # "done" => vreq[r].responses = <<>>
    /\ \A r \in Answered :
          /\ vreq[r].failed # None => Statuses(vreq[r]) = <<500>>
          /\ Statuses(vreq[r]) = <<200>> =>
                /\ vreq[r].failed = None
                /\ vreq[r].logId \in LogIndexes
                /\ logs[vreq[r].logId].serialNumber = vreq[r].body.serialNumber
                /\ vreq[r].calls = <<"getCountryByCode", "getDenomination",
                                     "createVerificationLog">>

\* C7: a request whose check had succeeded (both lookups returned, the
\* serial fits the pattern) was answered 500 because the log write failed
C7_Witness ==
    \E r \in Answered :
        /\ vreq[r].failed = "createVerificationLog"
        /\ vreq[r].body = Body("US", "1", SerialUS)
        /\ Statuses(vreq[r]) = <<500>>
        /\ \A i \in LogIndexes : logs[i].serialNumber # SerialUS

\* the GET /api/stats request has been answered with statistics
StatsAnswered ==
    /\ greq.pc = "done"
    /\ greq.route = "stats"
    /\ greq.responses[1].status = 200

\* the rows of a log that are authentic, and those that are not
AuthenticIn(rows) == {i \in 1..Len(rows) : rows[i].isAuthentic}
SuspiciousIn(rows) == {i \in 1..Len(rows) : ~rows[i].isAuthentic}

\* tenths is 100 * n / total rounded to one decimal place, in tenths:
\* no multiple of a tenth is closer to the quotient
RoundedToOneDecimal(tenths, n, total) ==
    /\ 2 * (tenths * total - 1000 * n) <= total
    /\ 2 * (1000 * n - tenths * total) <= total

\* C4: on a log of N authentic and M suspicious rows getVerificationStats
\* returns totalVerified = N + M, authentic = N, suspicious = M and
\* successRate = 100 * N / (N + M) rounded to one decimal place, and four
\* zeros when N + M = 0.
C4_StatsOfLog ==
    StatsAnswered =>
        LET stats == greq.responses[1].stats
            N == Cardinality(AuthenticIn(logs))
            M == Cardinality(SuspiciousIn(logs))
        IN  /\ stats.totalVerified = N + M
            /\ stats.authentic = N
            /\ stats.suspicious = M
            /\ N + M > 0 => RoundedToOneDecimal(stats.successRate, N, N + M)
            /\ N + M = 0 => stats = NoStats

\* C4: the statistics of a log of one authentic and two suspicious rows,
\* whose rate of 33.333... is rounded to 33.3
C4_Witness ==
    /\ StatsAnswered
    /\ Cardinality(AuthenticIn(logs)) = 1
    /\ Cardinality(SuspiciousIn(logs)) = 2
    /\ greq.responses[1].stats.successRate = 333

\* s is the start of t
IsPrefix(s, t) == Len(s) <= Len(t) /\ SubSeq(t, 1, Len(s)) = s

\* the store rows a body names
CountryOf(body) == CHOOSE c \in countries : c.code = body.countryCode

DenominationOf(body) ==
    CHOOSE d \in denominations :
        d.countryId = CountryOf(body).id /\ d.value = body.denomination

\* C5: a request answered 200 has exactly one row in the log, the one its
\* insert returned, carrying its country, denomination, serial number and
\* the flags of its response; a request with a well-formed body and known
\* country and denomination whose store calls did not fail is answered 200;
\* every step of the service leaves the rows of the log as they are and
\* adds at most one row, at the end, and only in the step in which a
\* request is answered 200 with that row.
C5_LogIsAppendOnly ==
    /\ [](\A r \in Answered :
            /\ Statuses(vreq[r]) = <<200>> =>
                 /\ vreq[r].logId \in LogIndexes
                 /\ logs[vreq[r].logId] =
                       [id |-> vreq[r].logId,
                        countryId |-> CountryOf(vreq[r].body).id,
                        denominationId |-> DenominationOf(vreq[r].body).id,
                        serialNumber |-> vreq[r].body.serialNumber,
                        isAuthentic |-> vreq[r].responses[1].isAuthentic,
                        formatValid |-> vreq[r].responses[1].formatValid,
                        lengthValid |-> vreq[r].responses[1].lengthValid]
            /\ (/\ VerifyBanknoteSchema(vreq[r].body)
                /\ DenominationKnown(vreq[r].body)
                /\ vreq[r].failed = None) => Statuses(vreq[r]) = <<200>>)
    /\ [][/\ IsPrefix(logs, logs')
          /\ Len(logs') <= Len(logs) + 1
          /\ Len(logs') = Len(logs) + 1 =>
                \E r \in VerifyReqs :
                    /\ vreq[r].pc = "createVerificationLog"
                    /\ Answers(r)
                    /\ Statuses(vreq'[r]) = <<200>>
                    /\ vreq'[r].logId = Len(logs')
                    /\ \A q \in VerifyReqs \ {r} : vreq'[q] = vreq[q]]_vars

\* C5: two requests were answered 200, each with its own row, while the
\* GET request was answered too
C5_Witness ==
    /\ Len(logs) = 2
    /\ \A r \in VerifyReqs : r \in Answered /\ Statuses(vreq[r]) = <<200>>
    /\ vreq["v1"].logId # vreq["v2"].logId
    /\ vreq["v1"].body # vreq["v2"].body
    /\ greq.pc = "done"

\* C8: the statistics GET /api/stats returns are those of the rows its
\* select read; these rows are a start of the log: no fewer than the log
\* held when the request arrived, no more than it holds; authentic counts
\* the authentic rows among them and authentic + suspicious = totalVerified.
C8_StatsAreOfOneSnapshot ==
    StatsAnswered =>
        LET stats == greq.responses[1].stats IN
        /\ IsPrefix(greq.read, logs)
        /\ stats.totalVerified = Len(greq.read)
        /\ stats.authentic = Cardinality(AuthenticIn(greq.read))
        /\ stats.authentic + stats.suspicious = stats.totalVerified
        /\ greq.startLen <= stats.totalVerified
        /\ stats.totalVerified <= Len(logs)

\* C8: a row was inserted between the arrival of the GET /api/stats request
\* and its select, and another after its response, while a POST /api/verify
\* is waiting
C8_Witness ==
    /\ StatsAnswered
    /\ greq.startLen < greq.responses[1].stats.totalVerified
    /\ greq.responses[1].stats.totalVerified < Len(logs)
    /\ \E r \in VerifyReqs : vreq[r].pc = "getDenomination"

\* the startups whose call has passed the emptiness check
Passed == {s \in Startups : seed[s].passed}

\* no store call of the startup is outstanding
Settled(s) ==
    /\ seed[s].pc \in {"done", "failed"}
    /\ seed[s].passed => \A i \in SeedCountryIdx : seed[s].created[i] # 0
    /\ seed[s].pending = {}

DuplicateCountry ==
    \E c1 \in countries, c2 \in countries : c1 # c2 /\ c1.code = c2.code

DuplicateDenomination ==
    \E d1 \in denominations, d2 \in denominations :
        /\ d1 # d2
        /\ d1.value = d2.value
        /\ \E c1 \in countries, c2 \in countries :
              c1.id = d1.countryId /\ c2.id = d2.countryId /\ c1.code = c2.code

\* the store holds every seed row once, each denomination under its country
SeededOnce ==
    /\ Cardinality(countries) = Len(SeedCountryData)
    /\ \A i \in SeedCountryIdx :
          \E c \in countries : c.code = SeedCountryData[i]
    /\ Cardinality(denominations) = Len(SeedDenominationData)
    /\ \A k \in SeedDenomIdx :
          \E d \in denominations : \E c \in countries :
              /\ d.countryId = c.id
              /\ c.code = SeedCountryData[SeedDenominationData[k].row.country + 1]
              /\ d.value = SeedDenominationData[k].row.value
              /\ d.serialFormat = SeedDenominationData[k].row.serialFormat

\* no store call of a startup failed for a reason other than the unique code
NoStoreError ==
    \A s \in Startups :
        /\ \A i \in SeedCountryIdx : seed[s].created[i] # -2
        /\ seed[s].pc = "failed" =>
              \E i \in SeedCountryIdx : seed[s].created[i] = -1

\* C9, as stated: once two startups have both passed the emptiness check
\* and their inserts have settled, no store call having failed otherwise,
\* the reference data is seeded twice: a Country or a Denomination is
\* stored more than once.
C9_BothPassedSeedsTwice ==
    (/\ Passed = Startups
     /\ NoStoreError
     /\ \A s \in Startups : Settled(s))
    => (DuplicateCountry \/ DuplicateDenomination)

\* C9, amended: the store never holds a Country code twice nor a
\* Denomination of a country twice, however many startups passed the
\* emptiness check; a startup that did not pass it inserts nothing; and a
\* startup that passed it and returned has left every seed row in the store
\* exactly once.
C9_NeverSeededTwice ==
    /\ ~DuplicateCountry
    /\ ~DuplicateDenomination
    /\ \A s \in Startups :
          /\ (~seed[s].passed) =>
                /\ \A i \in SeedCountryIdx : seed[s].created[i] = 0
                /\ seed[s].pending = {}
          /\ (seed[s].passed /\ seed[s].pc = "done") => SeededOnce

\* C9: both startups read zero countries and passed the emptiness check,
\* both inserted a country, and every insert has settled
C9_Witness ==
    /\ Passed = Startups
    /\ NoStoreError
    /\ \A s \in Startups :
          /\ Settled(s)
          /\ \E i \in SeedCountryIdx : seed[s].created[i] > 0

\* the length of a serial in UTF-16 code units, counted apart from
\* CodeUnits: one per character and one more per character outside the BMP
UnitCount(s) == Len(s) + Cardinality({i \in 1..Len(s) : s[i] \in Astral})

\* C10, as stated: lengthValid is true exactly when the number of
\* characters of the serial equals serialLength.
C10_LengthValidIsCharacterCount ==
    engine.pc = "checked" =>
        (engine.result.lengthValid <=>
            Len(engine.serialNumber) = engine.denomination.serialLength)

\* C10, amended: lengthValid is true exactly when the length of the serial
\* in UTF-16 code units equals serialLength; a serial one unit shorter or
\* longer is not length-valid and not authentic, whatever formatValid is.
C10_LengthValidIsExactUnitCount ==
    engine.pc = "checked" =>
        LET n == UnitCount(engine.serialNumber)
            serialLength == engine.denomination.serialLength
        IN  /\ engine.result.lengthValid <=> n = serialLength
            /\ (n = serialLength - 1 \/ n = serialLength + 1) =>
                  /\ ~engine.result.lengthValid
                  /\ ~engine.result.isAuthentic

\* C10: the US serial made one longer by an embedded space was checked
C10_Witness ==
    /\ engine.pc = "checked"
    /\ engine.denomination.serialFormat = "^[A-L]\\d{8}[A-Z]$"
    /\ engine.serialNumber =
          <<"B", "1", "1", "1", "1", "1", "1", "1", " ", "1", "C">>
    /\ ~engine.result.lengthValid
    /\ ~engine.result.isAuthentic

\* the serialFormat of the four UK denominations (storage.ts lines 182-185)
UKSerialFormat == "^[A-Z]{2}\\d{2}\\s\\d{6}$"

\* two uppercase letters, two digits, a space character, six digits
UKShape(s) ==
    /\ Len(s) = 11
    /\ \A i \in 1..2 : s[i] \in Upper
    /\ \A i \in 3..4 : s[i] \in Digit
    /\ s[5] = " "
    /\ \A i \in 6..11 : s[i] \in Digit

\* C11: for the UK denominations formatValid holds only for serials of the
\* whole-string shape two uppercase letters, two digits, a space character
\* at position 5, six digits; a serial with any other character at position
\* 5, or with no separator, is not format-valid.
C11_UKFormatValidOnlyWithSpace ==
    (/\ engine.pc = "checked"
     /\ engine.denomination.serialFormat = UKSerialFormat
     /\ engine.result.formatValid)
        => UKShape(engine.serialNumber)

\* no seedInitialData call is in progress: every startup has either not
\* called it yet or its call has ended and none of its inserts is outstanding
NoSeedInProgress ==
    \A s \in Startups : seed[s].pc = "idle" \/ Settled(s)

\* the store holds every seeded country and, under it, every seeded
\* denomination
SeededCompletely ==
    /\ \A i \in SeedCountryIdx :
          \E c \in countries : c.code = SeedCountryData[i]
    /\ \A k \in SeedDenomIdx :
          \E d \in denominations : \E c \in countries :
              /\ d.countryId = c.id
              /\ c.code = SeedCountryData[SeedDenominationData[k].row.country + 1]
              /\ d.value = SeedDenominationData[k].row.value

\* C12: seeding is all-or-nothing across startups: in every state in which
\* no seedInitialData call is in progress and the store holds at least one
\* Country, the store holds all the seeded countries and the complete
\* seeded Denomination set, whatever insert failed and however concurrent
\* startups interleaved.
C12_SeedingIsAllOrNothing ==
    (NoSeedInProgress /\ countries # {}) => SeededCompletely

====
